---- MODULE Spec2Model ----
(***************************************************************************)
(* Model of the two course-site maintenance scripts:                       *)
(*   fix_navigation.py   - CourseNavigationFixer (catalog, navigator,      *)
(*                         fragment builder, navigation patcher, batch)    *)
(*   update_structure.py - asset-injection patcher and its batch loop      *)
(*                                                                         *)
(* A document is a sequence of lexical tokens.  A token stands for one    *)
(* tag, one leaf element or one run of text, together with the white      *)
(* space the scripts emit around it.  The textual tests of                 *)
(* update_structure.py ('X' in content, re.sub) read the token sequence    *)
(* as written; the tree operations of fix_navigation.py work on            *)
(* ParseHtml(doc) and write SerializeHtml(tree) back.                      *)
(***************************************************************************)
EXTENDS Integers, Sequences, FiniteSets, TLC

VARIABLES
    lessons,        \* self.lessons: the catalog, a sequence of Lesson records
    files,          \* the target directory: file name -> document
    cur,            \* the Lesson argument of the navigator / fragment calls
    lastCall,       \* name of the operation that ran last
    retLesson,      \* Optional[Lesson] returned: <<>> is None, <<l>> is l
    retFrag,        \* markup returned by the fragment builder (tokens)
    target,         \* the file name argument of the calls
    retOk,          \* boolean result of the last update_html_file call
    retMsg,         \* asset pass: the message of the result tuple
    changes,        \* asset pass: changes_made of the last call
    wrote,          \* whether the last call wrote the file
    applied,        \* passes that have completed on the document so far
    pc,             \* position of the batch driver
    queue,          \* the enumerated file names, in processing order
    idx,            \* loop position in queue (1-based; next file to process)
    success_count,  \* process_all_files
    skipped_count,  \* both loops
    updated_count,  \* process_all_html_files
    failed_files,   \* process_all_html_files: sequence of file names
    raised,         \* file names whose processing raised an error
    attempted,      \* file names handed to update_html_file so far
    report,         \* the final tally shown to the operator
    script,         \* which of the two scripts is running
    env,            \* what the machine holds: known locations, source project
    base_path,      \* Optional[str]: the course directory main() settled on
    prompted,       \* verify_structure has asked "Continue anyway?"
    response,       \* Optional[str]: the operator's answer to that question
    created,        \* asset files and directories the run has created
    interrupted     \* a KeyboardInterrupt has been delivered

vars == <<lessons, files, cur, lastCall, retLesson, retFrag, target, retOk,
          retMsg, changes, wrote, applied, pc, queue, idx, success_count,
          skipped_count, updated_count, failed_files, raised, attempted,
          report, script, env, base_path, prompted, response, created,
          interrupted>>

(***************************************************************************)
(* Lesson catalog                                                          *)
(***************************************************************************)
Lesson(module_num, lesson_num, filename, title, module_name) ==
    [module_num |-> module_num, lesson_num |-> lesson_num,
     filename |-> filename, title |-> title, module_name |-> module_name]

L(m, l, f, t, mn) == Lesson(m, l, f, t, mn)

DefineCourseStructure ==
    << L(1, 1, "filesystem_advanced_file_operations.html", "Advanced File Operations", "File and System Automation"),
       L(1, 2, "filesystem_batch_renaming.html", "Batch Renaming", "File and System Automation"),
       L(1, 3, "filesystem_directory_watching.html", "Directory Watching", "File and System Automation"),
       L(1, 4, "filesystem_file_organization_scripts.html", "File Organization Scripts", "File and System Automation"),
       L(1, 5, "filesystem_backup_automation.html", "Backup Automation", "File and System Automation"),
       L(2, 1, "webscraping_html_css_selectors.html", "HTML & CSS Selectors", "Web Scraping"),
       L(2, 2, "webscraping_beautifulsoup_mastery.html", "BeautifulSoup Mastery", "Web Scraping"),
       L(2, 3, "webscraping_forms_cookies.html", "Forms and Cookies", "Web Scraping"),
       L(2, 4, "webscraping_session_management.html", "Session Management", "Web Scraping"),
       L(2, 5, "webscraping_ethics_robots.html", "Ethics and Robots.txt", "Web Scraping"),
       L(3, 1, "browser_automation_webdriver_setup.html", "WebDriver Setup", "Browser Automation"),
       L(3, 2, "browser_automation_element_interaction.html", "Element Interaction", "Browser Automation"),
       L(3, 3, "browser_automation_waiting_strategies.html", "Waiting Strategies", "Browser Automation"),
       L(3, 4, "browser_automation_page_object_model.html", "Page Object Model", "Browser Automation"),
       L(3, 5, "browser_automation_headless_browsing.html", "Headless Browsing", "Browser Automation"),
       L(4, 1, "workingwithdata_csv_processing.html", "CSV Processing", "Data Processing"),
       L(4, 2, "workingwithdata_excel_automation.html", "Excel Automation", "Data Processing"),
       L(4, 3, "workingwithdata_json_xml_parsing.html", "JSON & XML Parsing", "Data Processing"),
       L(4, 4, "workingwithdata_pdf_manipulation.html", "PDF Manipulation", "Data Processing"),
       L(4, 5, "workingwithdata_database_automation.html", "Database Automation", "Data Processing"),
       L(5, 1, "email_automation_sending_emails.html", "Sending Emails", "Email Automation"),
       L(5, 2, "email_automation_reading_emails.html", "Reading Emails", "Email Automation"),
       L(5, 3, "email_automation_attachments.html", "Email Attachments", "Email Automation"),
       L(5, 4, "email_automation_html_emails.html", "HTML Emails", "Email Automation"),
       L(5, 5, "email_automation_filtering_rules.html", "Email Filtering Rules", "Email Automation"),
       L(6, 1, "api_automation_restful_consumption.html", "RESTful API Consumption", "API Automation"),
       L(6, 2, "api_automation_authentication_methods.html", "Authentication Methods", "API Automation"),
       L(6, 3, "api_automation_rate_limiting.html", "Rate Limiting", "API Automation"),
       L(6, 4, "api_automation_webhook_implementation.html", "Webhook Implementation", "API Automation"),
       L(6, 5, "api_automation_api_testing.html", "API Testing", "API Automation"),
       L(7, 1, "cloud_automation_aws_boto3.html", "AWS with Boto3", "Cloud Automation"),
       L(7, 2, "cloud_automation_google_cloud.html", "Google Cloud Platform", "Cloud Automation"),
       L(7, 3, "cloud_automation_storage.html", "Cloud Storage", "Cloud Automation"),
       L(7, 4, "cloud_automation_serverless.html", "Serverless Functions", "Cloud Automation"),
       L(7, 5, "cloud_automation_deploying.html", "Deployment Automation", "Cloud Automation"),
       L(8, 1, "task_orchestration_airflow_basics.html", "Apache Airflow Basics", "Task Orchestration"),
       L(8, 2, "task_orchestration_creating_dags.html", "Creating DAGs", "Task Orchestration"),
       L(8, 3, "task_orchestration_dependencies.html", "Task Dependencies", "Task Orchestration"),
       L(8, 4, "task_orchestration_error_handling.html", "Error Handling", "Task Orchestration"),
       L(8, 5, "task_orchestration_monitoring.html", "Monitoring and Alerts", "Task Orchestration"),
       L(9, 1, "testing_automation_unit.html", "Unit Test Automation", "Testing Automation"),
       L(9, 2, "testing_automation_integration.html", "Integration Testing", "Testing Automation"),
       L(9, 3, "testing_automation_ui_selenium.html", "UI Testing with Selenium", "Testing Automation"),
       L(9, 4, "testing_automation_api.html", "API Testing", "Testing Automation"),
       L(9, 5, "testing_automation_ci.html", "Continuous Integration", "Testing Automation"),
       L(10, 1, "systemadmin_scheduled_tasks.html", "Scheduled Tasks", "System Administration"),
       L(10, 2, "systemadmin_process_management.html", "Process Management", "System Administration"),
       L(10, 3, "systemadmin_log_analysis.html", "Log Analysis", "System Administration"),
       L(10, 4, "systemadmin_system_monitoring.html", "System Monitoring", "System Administration"),
       L(10, 5, "systemadmin_environment_management.html", "Environment Management", "System Administration"),
       L(11, 1, "gui_automation_pyautogui.html", "PyAutoGUI Basics", "GUI Automation"),
       L(11, 2, "gui_automation_mouse_keyboard.html", "Mouse and Keyboard Control", "GUI Automation"),
       L(11, 3, "gui_automation_screen_capture.html", "Screen Capture", "GUI Automation"),
       L(11, 4, "gui_automation_window_management.html", "Window Management", "GUI Automation"),
       L(11, 5, "gui_automation_cross_platform.html", "Cross-Platform GUI", "GUI Automation"),
       L(12, 1, "chatbot_telegram_bots.html", "Telegram Bots", "Chatbot Development"),
       L(12, 2, "chatbot_discord_bots.html", "Discord Bots", "Chatbot Development"),
       L(12, 3, "chatbot_slack_integration.html", "Slack Integration", "Chatbot Development"),
       L(12, 4, "chatbot_command_handling.html", "Command Handling", "Chatbot Development"),
       L(12, 5, "chatbot_nlp.html", "Natural Language Processing", "Chatbot Development"),
       L(13, 1, "advanced_scraping_selenium.html", "Advanced Selenium", "Advanced Web Scraping"),
       L(13, 2, "advanced_scraping_scrapy.html", "Scrapy Framework", "Advanced Web Scraping"),
       L(13, 3, "advanced_scraping_captcha.html", "CAPTCHA Handling", "Advanced Web Scraping"),
       L(13, 4, "advanced_scraping_proxy_rotation.html", "Proxy Rotation", "Advanced Web Scraping"),
       L(13, 5, "advanced_scraping_data_pipelines.html", "Data Pipelines", "Advanced Web Scraping"),
       L(14, 1, "rpa_enterprise_concepts.html", "RPA Concepts", "RPA and Enterprise Automation"),
       L(14, 2, "rpa_enterprise_uipath_integration.html", "UiPath/Python Integration", "RPA and Enterprise Automation"),
       L(14, 3, "rpa_enterprise_business_process.html", "Business Process Automation", "RPA and Enterprise Automation"),
       L(14, 4, "rpa_enterprise_document_processing.html", "Document Processing", "RPA and Enterprise Automation"),
       L(14, 5, "rpa_enterprise_reporting.html", "Reporting Automation", "RPA and Enterprise Automation") >>

None == << >>
Some(x) == << x >>

\* variant: elements are matched on the file name alone
ListIndexByFilename(seq, x) ==
    IF \E i \in 1..Len(seq) : seq[i].filename = x.filename
    THEN CHOOSE i \in 1..Len(seq) :
            /\ seq[i].filename = x.filename
            /\ \A j \in 1..(i - 1) : seq[j].filename # x.filename
    ELSE 0

\* list.index(x): position of the first element equal to x, 0 for ValueError
ListIndex(seq, x) ==
    IF \E i \in 1..Len(seq) : seq[i] = x
    THEN CHOOSE i \in 1..Len(seq) :
            seq[i] = x /\ \A j \in 1..(i - 1) : seq[j] # x
    ELSE 0

\* variant: the scan starts at the second entry
get_lesson_by_filename_skip_first(ls, filename) ==
    IF \E i \in 2..Len(ls) : ls[i].filename = filename
    THEN Some(ls[CHOOSE i \in 2..Len(ls) :
                    /\ ls[i].filename = filename
                    /\ \A j \in 2..(i - 1) : ls[j].filename # filename])
    ELSE None

get_lesson_by_filename(ls, filename) ==
    IF \E i \in 1..Len(ls) : ls[i].filename = filename
    THEN Some(ls[CHOOSE i \in 1..Len(ls) :
                    /\ ls[i].filename = filename
                    /\ \A j \in 1..(i - 1) : ls[j].filename # filename])
    ELSE None

\* variant: the boundary test is off by one
get_previous_lesson_off_by_one(ls, current) ==
    LET current_index == ListIndex(ls, current)
    IN  IF current_index = 0 THEN None
        ELSE IF current_index > 2 THEN Some(ls[current_index - 1])
        ELSE None

get_previous_lesson(ls, current) ==
    LET current_index == ListIndex(ls, current)
    IN  IF current_index = 0 THEN None            \* ValueError caught
        ELSE IF current_index > 1 THEN Some(ls[current_index - 1])
        ELSE None

get_next_lesson(ls, current) ==
    LET current_index == ListIndex(ls, current)
    IN  IF current_index = 0 THEN None            \* ValueError caught
        ELSE IF current_index < Len(ls) THEN Some(ls[current_index + 1])
        ELSE None

(***************************************************************************)
(* Tokens                                                                  *)
(*   k    : "open" | "close" | "void" | "leaf" | "text" | "comment"        *)
(*   tag  : tag name ("" for text and comments)                            *)
(*   cls  : value of the class attribute ("" when absent)                  *)
(*   href : value of the href / src attribute ("" when absent)             *)
(*   anchor : << >> or <<n>> for an href ending in #module{n}              *)
(*   txt  : text of a text token, content of a leaf element                *)
(*   form : how the tag is written: "" plain, "sc" self-closed void,       *)
(*          "unclosed" void without the slash, "defer" valueless defer     *)
(*          attribute, "defer=" defer with an empty value                  *)
(***************************************************************************)
Tok(k, tag, cls, href, anchor, txt, form) ==
    [k |-> k, tag |-> tag, cls |-> cls, href |-> href, anchor |-> anchor,
     txt |-> txt, form |-> form]

OpenTag(tag, cls, href, anchor) == Tok("open", tag, cls, href, anchor, "", "")
CloseTag(tag) == Tok("close", tag, "", "", << >>, "", "")
Text(txt) == Tok("text", "", "", "", << >>, txt, "")
Comment(txt) == Tok("comment", "", "", "", << >>, txt, "")

\* html.parser + BeautifulSoup: character references in text are decoded
UnescapeText(txt) ==
    CASE txt = "&gt;" -> ">"
      [] txt = "&larr;" -> "<-"
      [] txt = "&rarr;" -> "->"
      [] txt = "HTML &amp; CSS Selectors" -> "HTML & CSS Selectors"
      [] txt = "JSON &amp; XML Parsing" -> "JSON & XML Parsing"
      [] txt = "Lesson text with R&amp;D" -> "Lesson text with R&D"
      [] OTHER -> txt

\* str(soup), formatter "minimal": & < > in text are written as references
EscapeText(txt) ==
    CASE txt = ">" -> "&gt;"
      [] txt = "HTML & CSS Selectors" -> "HTML &amp; CSS Selectors"
      [] txt = "JSON & XML Parsing" -> "JSON &amp; XML Parsing"
      [] txt = "Lesson text with R&D" -> "Lesson text with R&amp;D"
      [] OTHER -> txt

(***************************************************************************)
(* Fragment builder (the markup strings, before they are parsed)           *)
(***************************************************************************)
\* variant: the module anchor is built from the lesson number
create_breadcrumb_html_lesson_anchor(lesson) ==
    << OpenTag("nav", "breadcrumb", "", << >>),
       OpenTag("a", "", "index.html", << >>), Text("Home"), CloseTag("a"),
       Text("&gt;"),
       OpenTag("a", "", "index.html", << lesson.lesson_num >>),
       Text(lesson.module_name), CloseTag("a"),
       Text("&gt;"),
       OpenTag("span", "", "", << >>), Text(lesson.title), CloseTag("span"),
       CloseTag("nav") >>

create_breadcrumb_html(lesson) ==
    << OpenTag("nav", "breadcrumb", "", << >>),
       OpenTag("a", "", "index.html", << >>), Text("Home"), CloseTag("a"),
       Text("&gt;"),
       OpenTag("a", "", "index.html", << lesson.module_num >>),
       Text(lesson.module_name), CloseTag("a"),
       Text("&gt;"),
       OpenTag("span", "", "", << >>), Text(lesson.title), CloseTag("span"),
       CloseTag("nav") >>

\* variant: a missing neighbour leaves its slot out
create_footer_navigation_no_placeholder(ls, lesson) ==
    LET prev_lesson == get_previous_lesson(ls, lesson)
        next_lesson == get_next_lesson(ls, lesson)
        prev_part ==
            IF prev_lesson # None
            THEN << OpenTag("a", "nav-prev", prev_lesson[1].filename, << >>),
                    Text("&larr;"), Text(" Previous: "),
                    Text(prev_lesson[1].title), CloseTag("a") >>
            ELSE << >>
        home_part ==
            << OpenTag("a", "nav-home", "index.html", << >>),
               Text("Course Home"), CloseTag("a") >>
        next_part ==
            IF next_lesson # None
            THEN << OpenTag("a", "nav-next", next_lesson[1].filename, << >>),
                    Text("Next: "), Text(next_lesson[1].title),
                    Text("&rarr;"), CloseTag("a") >>
            ELSE << >>
    IN  << OpenTag("footer", "", "", << >>),
           OpenTag("div", "navigation-links", "", << >>) >>
        \o prev_part \o home_part \o next_part
        \o << CloseTag("div"), CloseTag("footer") >>

create_footer_navigation(ls, lesson) ==
    LET prev_lesson == get_previous_lesson(ls, lesson)
        next_lesson == get_next_lesson(ls, lesson)
        prev_part ==
            IF prev_lesson # None
            THEN << OpenTag("a", "nav-prev", prev_lesson[1].filename, << >>),
                    Text("&larr;"), Text(" Previous: "),
                    Text(prev_lesson[1].title), CloseTag("a") >>
            ELSE << OpenTag("span", "nav-prev", "", << >>), CloseTag("span") >>
        home_part ==
            << OpenTag("a", "nav-home", "index.html", << >>),
               Text("Course Home"), CloseTag("a") >>
        next_part ==
            IF next_lesson # None
            THEN << OpenTag("a", "nav-next", next_lesson[1].filename, << >>),
                    Text("Next: "), Text(next_lesson[1].title),
                    Text("&rarr;"), CloseTag("a") >>
            ELSE << OpenTag("span", "nav-next", "", << >>), CloseTag("span") >>
    IN  << OpenTag("footer", "", "", << >>),
           OpenTag("div", "navigation-links", "", << >>) >>
        \o prev_part \o home_part \o next_part
        \o << CloseTag("div"), CloseTag("footer") >>

(***************************************************************************)
(* BeautifulSoup(content, 'html.parser') and str(soup)                     *)
(***************************************************************************)
\* one node as the tree builder stores it: text decoded, a valueless
\* attribute given the value ""
ParseTok(t) ==
    CASE t.k = "text" -> [t EXCEPT !.txt = UnescapeText(t.txt)]
      [] t.form = "defer" -> [t EXCEPT !.form = "defer="]
      [] OTHER -> t

\* one node as str(soup) writes it: text escaped, void elements self-closed
SerializeTok(t) ==
    CASE t.k = "text" -> [t EXCEPT !.txt = EscapeText(t.txt)]
      [] t.k = "void" -> [t EXCEPT !.form = "sc"]
      [] OTHER -> t

\* position of the innermost open element named tag on the stack, 0 if none
LastIdx(stack, tag) ==
    IF \E i \in 1..Len(stack) : stack[i] = tag
    THEN CHOOSE i \in 1..Len(stack) :
            stack[i] = tag /\ \A j \in (i + 1)..Len(stack) : stack[j] # tag
    ELSE 0

\* end tags for the open elements stack[p..Len(stack)], innermost first
RECURSIVE ClosesFor(_, _)
ClosesFor(stack, p) ==
    IF Len(stack) < p THEN << >>
    ELSE << CloseTag(stack[Len(stack)]) >>
         \o ClosesFor(SubSeq(stack, 1, Len(stack) - 1), p)

\* The tree, written as a balanced token sequence.  An end tag closes the
\* innermost open element of that name and everything opened inside it; an
\* end tag with no open element is dropped; at the end of input every
\* element still open is closed.
RECURSIVE ParseRec(_, _, _)
ParseRec(doc, stack, out) ==
    IF doc = << >> THEN out \o ClosesFor(stack, 1)
    ELSE LET t == Head(doc)
             p == LastIdx(stack, t.tag)
         IN  CASE t.k = "open" ->
                    ParseRec(Tail(doc), Append(stack, t.tag),
                             Append(out, ParseTok(t)))
               [] t.k = "close" ->
                    IF p = 0 THEN ParseRec(Tail(doc), stack, out)
                    ELSE ParseRec(Tail(doc), SubSeq(stack, 1, p - 1),
                                  out \o ClosesFor(stack, p))
               [] OTHER ->
                    ParseRec(Tail(doc), stack, Append(out, ParseTok(t)))

ParseHtml(doc) == ParseRec(doc, << >>, << >>)

SerializeHtml(tree) == [i \in 1..Len(tree) |-> SerializeTok(tree[i])]

(***************************************************************************)
(* Tree and text helpers                                                   *)
(***************************************************************************)
\* index of the first token satisfying P, 0 if there is none
FirstIdx(seq, P(_)) ==
    IF \E i \in 1..Len(seq) : P(seq[i])
    THEN CHOOSE i \in 1..Len(seq) :
            P(seq[i]) /\ \A j \in 1..(i - 1) : ~P(seq[j])
    ELSE 0

CountIn(seq, lo, hi, P(_)) == Cardinality({i \in lo..hi : P(seq[i])})

\* index of the end tag of the element opened at index i of a balanced tree
MatchClose(tree, i) ==
    LET tag == tree[i].tag
        IsOpen(t) == t.k = "open" /\ t.tag = tag
        IsClose(t) == t.k = "close" /\ t.tag = tag
    IN  CHOOSE j \in (i + 1)..Len(tree) :
            /\ IsClose(tree[j])
            /\ CountIn(tree, i, j, IsOpen) = CountIn(tree, i, j, IsClose)
            /\ \A m \in (i + 1)..(j - 1) :
                  ~(/\ IsClose(tree[m])
                    /\ CountIn(tree, i, m, IsOpen)
                         = CountIn(tree, i, m, IsClose))

\* soup.find(tag): the first element of that name in document order
FindTag(tree, tag) ==
    FirstIdx(tree, LAMBDA t : t.k = "open" /\ t.tag = tag)

\* soup.find('nav', class_='breadcrumb')
FindBreadcrumb(tree) ==
    FirstIdx(tree, LAMBDA t : t.k = "open" /\ t.tag = "nav"
                               /\ t.cls = "breadcrumb")

\* the tokens of the element opened at index i
Element(tree, i) == SubSeq(tree, i, MatchClose(tree, i))

\* old.replace_with(new): the element opened at i gives way to new
ReplaceElement(tree, i, new) ==
    SubSeq(tree, 1, i - 1) \o new
    \o SubSeq(tree, MatchClose(tree, i) + 1, Len(tree))

\* new is placed right after index i (i = 0: at the front)
InsertAfter(seq, i, new) ==
    SubSeq(seq, 1, i) \o new \o SubSeq(seq, i + 1, Len(seq))

\* new is placed right before index i
InsertBefore(seq, i, new) == InsertAfter(seq, i - 1, new)

(***************************************************************************)
(* fix_navigation.py: the edits of update_html_file on the file content    *)
(***************************************************************************)
\* the CSS payload of the injected style block
NavigationCss ==
    ".breadcrumb .breadcrumb a .navigation-links .nav-prev .nav-next .nav-home"

OtherMarkerCss == ".breadcrumb { color: gray; }"
PlainCss == "p { margin: 0; }"

\* re.compile('breadcrumb|navigation-links') searched in a style's string
HasNavMarker(txt) == txt \in {NavigationCss, OtherMarkerCss}

StyleTag(css) == Tok("leaf", "style", "", "", << >>, css, "")

\* soup.find('style', string=re.compile('breadcrumb|navigation-links'))
FindNavStyle(tree) ==
    FirstIdx(tree, LAMBDA t : t.k = "leaf" /\ t.tag = "style"
                               /\ HasNavMarker(t.txt))

\* lines 314-327
BreadcrumbEdit(lesson, soup) ==
    LET existing_breadcrumb == FindBreadcrumb(soup)
        new_breadcrumb == ParseHtml(create_breadcrumb_html(lesson))
        nav == Element(new_breadcrumb, FindTag(new_breadcrumb, "nav"))
        body == FindTag(soup, "body")
    IN  IF existing_breadcrumb # 0
        THEN ReplaceElement(soup, existing_breadcrumb, nav)
        ELSE IF body # 0 THEN InsertAfter(soup, body, nav)
        ELSE soup

\* lines 329-341
FooterEdit(ls, lesson, soup) ==
    LET existing_footer == FindTag(soup, "footer")
        new_footer == ParseHtml(create_footer_navigation(ls, lesson))
        footer == Element(new_footer, FindTag(new_footer, "footer"))
        body == FindTag(soup, "body")
    IN  IF existing_footer # 0
        THEN ReplaceElement(soup, existing_footer, footer)
        ELSE IF body # 0
        THEN InsertBefore(soup, MatchClose(soup, body), footer)
        ELSE soup

\* variant: the style block is appended without looking for an existing one
StyleEdit_no_marker_test(soup) ==
    LET head == FindTag(soup, "head")
    IN  IF head # 0
        THEN InsertBefore(soup, MatchClose(soup, head),
                          << StyleTag(NavigationCss) >>)
        ELSE soup

\* lines 343-401
StyleEdit(soup) ==
    LET head == FindTag(soup, "head")
    IN  IF FindNavStyle(soup) = 0 /\ head # 0
        THEN InsertBefore(soup, MatchClose(soup, head),
                          << StyleTag(NavigationCss) >>)
        ELSE soup

\* lines 312-406: parse, the three edits in order, str(soup)
NavTransform(ls, lesson, content) ==
    SerializeHtml(
        StyleEdit(FooterEdit(ls, lesson,
            BreadcrumbEdit(lesson, ParseHtml(content)))))

(***************************************************************************)
(* update_structure.py: the edits of update_html_file on the file content  *)
(***************************************************************************)
MainCssLink(form) ==
    Tok("void", "link", "", "styles/main.css", << >>, "", form)
EnhancedCssLink ==
    Tok("void", "link", "", "/styles/enhanced.css", << >>, "", "sc")
CourseEnhancementsScript ==
    Tok("leaf", "script", "", "/js/course-enhancements.js", << >>, "", "defer")
ClipboardScript ==
    Tok("leaf", "script", "", "/js/clipboard.js", << >>, "", "defer")
SkipComment == Comment("Skip to main content for accessibility")
SkipLink ==
    Tok("leaf", "a", "skip-to-main", "#main-content", << >>,
        "Skip to main content", "")
ProgressComment == Comment("Progress indicator")
ProgressIndicator ==
    Tok("leaf", "div", "progress-indicator", "", << >>, "progress-bar", "")
MainOpen == Tok("open", "main", "", "", << >>, "", "")
MainClose == CloseTag("main")

\* the tests  'needle' in content
InContent(content, P(_)) == \E i \in 1..Len(content) : P(content[i])

HasEnhancedCss(t) == t.href = "/styles/enhanced.css"
HasCourseEnhancements(t) ==
    t.href \in {"/js/course-enhancements.js", "js/course-enhancements.js"}
HasClipboard(t) == t.href = "/js/clipboard.js"
HasSkipToMain(t) == t.cls = "skip-to-main"
HasProgressIndicator(t) == t.cls = "progress-indicator"
HasMainTag(t) == t.k = "open" /\ t.tag = "main"
IsBareH1(t) == t.k = "open" /\ t.tag = "h1" /\ t.cls = ""
IsBareBody(t) == t.k = "open" /\ t.tag = "body" /\ t.cls = ""
IsHeadClose(t) == t.k = "close" /\ t.tag = "head"
IsBodyClose(t) == t.k = "close" /\ t.tag = "body"

\* the patterns of re.sub
\* <link href="[^"]*styles/main\.css" rel="stylesheet"/>
MatchesMainCssLink(t) ==
    t.k = "void" /\ t.tag = "link" /\ t.href = "styles/main.css"
    /\ t.form = "sc"
\* <h1[^>]*>
MatchesH1(t) == t.k = "open" /\ t.tag = "h1"

\* re.sub(pattern, replacement, content, count=1) where the replacement
\* keeps the match and puts new after it / before it
SubAfter(content, P(_), new) ==
    IF FirstIdx(content, P) = 0 THEN content
    ELSE InsertAfter(content, FirstIdx(content, P), new)

SubBefore(content, P(_), new) ==
    IF FirstIdx(content, P) = 0 THEN content
    ELSE InsertBefore(content, FirstIdx(content, P), new)

Step(c, ch) == [content |-> c, changes_made |-> ch]

\* 1. lines 251-259
EnhancedCssEdit(s) ==
    LET new_content == SubAfter(s.content, MatchesMainCssLink,
                                << EnhancedCssLink >>)
    IN  IF ~InContent(s.content, HasEnhancedCss)
           /\ new_content # s.content
        THEN Step(new_content, Append(s.changes_made, "added enhanced.css"))
        ELSE s

\* 2. lines 261-272
CourseEnhancementsEdit(s) ==
    LET new_content == SubBefore(s.content, IsHeadClose,
                                 << CourseEnhancementsScript >>)
    IN  IF ~InContent(s.content, HasCourseEnhancements)
           /\ InContent(s.content, IsHeadClose)
           /\ new_content # s.content
        THEN Step(new_content,
                  Append(s.changes_made, "added course-enhancements.js"))
        ELSE s

\* 3. lines 274-289
ClipboardEdit(s) ==
    LET new_content ==
            IF InContent(s.content, HasCourseEnhancements)
            THEN SubAfter(s.content,
                          LAMBDA t : t = CourseEnhancementsScript,
                          << ClipboardScript >>)
            ELSE SubBefore(s.content, IsHeadClose, << ClipboardScript >>)
    IN  IF ~InContent(s.content, HasClipboard) /\ new_content # s.content
        THEN Step(new_content, Append(s.changes_made, "added clipboard.js"))
        ELSE s

\* variant: the skip link is inserted without the presence test
SkipLinkEdit_no_presence_test(s) ==
    LET new_content == SubAfter(s.content, IsBareBody,
                                << SkipComment, SkipLink >>)
    IN  IF InContent(s.content, IsBareBody) /\ new_content # s.content
        THEN Step(new_content,
                  Append(s.changes_made, "added skip-to-main link"))
        ELSE s

\* 4. lines 291-299
SkipLinkEdit(s) ==
    LET new_content == SubAfter(s.content, IsBareBody,
                                << SkipComment, SkipLink >>)
    IN  IF ~InContent(s.content, HasSkipToMain)
           /\ InContent(s.content, IsBareBody)
           /\ new_content # s.content
        THEN Step(new_content,
                  Append(s.changes_made, "added skip-to-main link"))
        ELSE s

\* 5. lines 301-309
ProgressEdit(s) ==
    LET new_content == SubAfter(s.content, LAMBDA t : t = SkipLink,
                                << ProgressComment, ProgressIndicator >>)
    IN  IF ~InContent(s.content, HasProgressIndicator)
           /\ InContent(s.content, HasSkipToMain)
           /\ new_content # s.content
        THEN Step(new_content,
                  Append(s.changes_made, "added progress indicator"))
        ELSE s

\* 6. lines 311-323
MainWrapperEdit(s) ==
    LET new_content == SubBefore(s.content, MatchesH1, << MainOpen >>)
    IN  IF ~InContent(s.content, HasMainTag)
           /\ InContent(s.content, IsBareH1)
           /\ new_content # s.content
        THEN Step(SubBefore(new_content, IsBodyClose, << MainClose >>),
                  Append(s.changes_made, "added main wrapper"))
        ELSE s

\* lines 248-323: the six edits in order
AssetTransform(content) ==
    MainWrapperEdit(ProgressEdit(SkipLinkEdit(ClipboardEdit(
        CourseEnhancementsEdit(EnhancedCssEdit(Step(content, << >>)))))))

(***************************************************************************)
(* update_html_file of both scripts, as functions of the directory, the    *)
(* file name and the outcome io of the file system for this call           *)
(***************************************************************************)
\* "ok"; open(..., 'r') raises an OSError; read raises a UnicodeDecodeError;
\* the parser raises; open(..., 'w') raises (file untouched); write raises
\* after the file was truncated
IoOutcomes ==
    {"ok", "read_error", "decode_error", "parse_error", "open_w_error",
     "write_error"}

EmptyDoc == << >>

NoChanges == << >>

\* variant: the file is opened and read before the catalog is consulted
NavUpdateResult_read_before_lookup(ls, fs, filename, io) ==
    LET lesson == get_lesson_by_filename(ls, filename)
        unchanged == [files |-> fs, ok |-> FALSE, wrote |-> FALSE,
                      raised |-> FALSE]
    IN  IF io \in {"read_error", "decode_error", "parse_error"}
        THEN [unchanged EXCEPT !.raised = TRUE]
        ELSE IF lesson = None THEN unchanged
        ELSE IF io = "open_w_error"
        THEN [unchanged EXCEPT !.raised = TRUE]
        ELSE IF io = "write_error"
        THEN [files |-> [fs EXCEPT ![filename] = EmptyDoc], ok |-> FALSE,
              wrote |-> TRUE, raised |-> TRUE]
        ELSE [files |-> [fs EXCEPT ![filename] =
                            NavTransform(ls, lesson[1], fs[filename])],
              ok |-> TRUE, wrote |-> TRUE, raised |-> FALSE]

\* fix_navigation.py lines 298-412
NavUpdateResult(ls, fs, filename, io) ==
    LET lesson == get_lesson_by_filename(ls, filename)
        unchanged == [files |-> fs, ok |-> FALSE, wrote |-> FALSE,
                      raised |-> FALSE]
    IN  IF lesson = None THEN unchanged
        ELSE IF io \in {"read_error", "decode_error", "parse_error",
                         "open_w_error"}
        THEN [unchanged EXCEPT !.raised = TRUE]
        ELSE IF io = "write_error"
        THEN [files |-> [fs EXCEPT ![filename] = EmptyDoc], ok |-> FALSE,
              wrote |-> TRUE, raised |-> TRUE]
        ELSE [files |-> [fs EXCEPT ![filename] =
                            NavTransform(ls, lesson[1], fs[filename])],
              ok |-> TRUE, wrote |-> TRUE, raised |-> FALSE]

\* update_structure.py lines 239-334; msg is the second component of the
\* returned tuple when it is a string, with the text of the exception (an
\* OSError names the path) kept apart in detail
AssetUpdateResult(fs, filename, io) ==
    LET t == AssetTransform(fs[filename])
        res(f, ok, msg, detail, ch, w, r) ==
            [files |-> f, ok |-> ok, msg |-> msg, detail |-> detail,
             changes |-> ch, wrote |-> w, raised |-> r]
    IN  IF io = "read_error"
        THEN res(fs, FALSE, "Error reading file", filename, NoChanges,
                 FALSE, TRUE)
        ELSE IF io = "decode_error"
        THEN res(fs, FALSE, "Error reading file", "", NoChanges, FALSE, TRUE)
        ELSE IF t.changes_made = NoChanges
        THEN res(fs, FALSE, "no changes needed", "", NoChanges, FALSE, FALSE)
        ELSE IF io = "open_w_error"
        THEN res(fs, FALSE, "Error writing file", filename, NoChanges,
                 FALSE, TRUE)
        ELSE IF io = "write_error"
        THEN res([fs EXCEPT ![filename] = EmptyDoc], FALSE,
                 "Error writing file", filename, NoChanges, TRUE, TRUE)
        ELSE res([fs EXCEPT ![filename] = t.content], TRUE, "", "",
                 t.changes_made, TRUE, FALSE)

(***************************************************************************)
(* Documents the scripts are run on                                        *)
(***************************************************************************)
WindowLen == 1

\* catalog positions whose documents are patched: both ends and a window
\* that starts at the first title holding an ampersand
PatchedPositions ==
    {1, Len(DefineCourseStructure)} \cup {5 + i : i \in 1..WindowLen}

UnmappedName == "notes.html"

PatchNames ==
    {DefineCourseStructure[i].filename : i \in PatchedPositions}
    \cup {UnmappedName}

OldCrumb ==
    << OpenTag("nav", "breadcrumb", "", << >>), Text("Old trail"),
       CloseTag("nav") >>

HeadPart(head, link, style) ==
    IF head = "none" THEN << >>
    ELSE << OpenTag("head", "", "", << >>) >>
         \o (IF link = "none" THEN << >> ELSE << MainCssLink(link) >>)
         \o (IF style = "none" THEN << >> ELSE << StyleTag(style) >>)
         \o << CloseTag("head") >>

InnerPart(crumb, h1, footer) ==
    (IF crumb = "old" THEN OldCrumb ELSE << >>)
    \o (CASE h1 = "none" -> << >>
          [] h1 = "bare" -> << OpenTag("h1", "", "", << >>), Text("Title"),
                               CloseTag("h1") >>
          [] h1 = "attr" -> << OpenTag("h1", "title", "", << >>),
                               Text("Title"), CloseTag("h1") >>)
    \o << Text("Lesson text with R&D") >>
    \o (CASE footer = "none" -> << >>
          [] footer = "old" -> << OpenTag("footer", "", "", << >>),
                                  Text("Old footer"),
                                  CloseTag("footer") >>
          [] footer = "crumb" -> << OpenTag("footer", "", "", << >>) >>
                                 \o OldCrumb
                                 \o << CloseTag("footer") >>)

BodyPart(body, inner) ==
    CASE body = "none" -> inner
      [] body = "bare" -> << OpenTag("body", "", "", << >>) >> \o inner
                          \o << CloseTag("body") >>
      [] body = "attr" -> << OpenTag("body", "lesson", "", << >>) >> \o inner
                          \o << CloseTag("body") >>
      [] body = "unclosed" -> << OpenTag("body", "", "", << >>) >> \o inner

InitialDocs ==
    { HeadPart(head, link, style) \o BodyPart(body, InnerPart(crumb, h1, footer)) :
        head \in {"none", "head"},
        link \in {"none", "sc", "unclosed"},
        style \in {"none", OtherMarkerCss, PlainCss},
        body \in {"none", "bare", "attr", "unclosed"},
        crumb \in {"none", "old"},
        h1 \in {"none", "bare", "attr"},
        footer \in {"none", "old", "crumb"} }

(***************************************************************************)
(* State                                                                   *)
(***************************************************************************)
NavCall == "fix_navigation.update_html_file"
AssetCall == "update_structure.update_html_file"

NoReport == [shown |-> FALSE, updated |-> 0, skipped |-> 0, failed |-> 0]

\* the two programs
FixNavigation == "fix_navigation.py"
UpdateStructure == "update_structure.py"

\* the directory that holds the course pages (the variable files)
CourseDir == "python_automation"

\* a machine on which the course directory is at one of the locations the
\* scripts probe and a sibling project with the asset files exists
ResolvedEnv == [reachable |-> TRUE, source |-> TRUE]

InitRest ==
    /\ prompted = FALSE
    /\ response = None
    /\ created = {}
    /\ interrupted = FALSE
    /\ lessons = DefineCourseStructure
    /\ lastCall = "none"
    /\ retLesson = None
    /\ retFrag = << >>
    /\ retOk = FALSE
    /\ retMsg = ""
    /\ changes = NoChanges
    /\ wrote = FALSE
    /\ applied = {}
    /\ queue = << >>
    /\ idx = 0
    /\ success_count = 0
    /\ skipped_count = 0
    /\ updated_count = 0
    /\ failed_files = << >>
    /\ raised = {}
    /\ attempted = << >>
    /\ report = NoReport

batchVars == <<pc, queue, idx, success_count, skipped_count, updated_count,
               failed_files, attempted, report>>
navigatorVars == <<cur, retLesson, retFrag>>
mainVars == <<script, env, base_path, prompted, response, created,
              interrupted>>

(***************************************************************************)
(* One document under repeated calls of the two update_html_file           *)
(***************************************************************************)
Init ==
    /\ InitRest
    /\ pc = "idle"
    /\ script = "either"
    /\ env = ResolvedEnv
    /\ base_path = Some(CourseDir)
    /\ cur = DefineCourseStructure[1]
    /\ target = ""
    /\ \E name \in PatchNames, doc \in InitialDocs :
          files = [n \in {name} |-> doc]

\* fixer.update_html_file(filepath)
FixNavigationUpdate(filename, io) ==
    \E r \in {NavUpdateResult(lessons, files, filename, io)} :
        /\ pc = "idle"
        /\ files' = r.files
        /\ lastCall' = NavCall
        /\ target' = filename
        /\ retOk' = r.ok
        /\ retMsg' = ""
        /\ changes' = NoChanges
        /\ wrote' = r.wrote
        /\ applied' = IF r.ok THEN applied \cup {"navigation"} ELSE applied
        /\ raised' = IF r.raised THEN raised \cup {filename} ELSE raised
        /\ UNCHANGED <<mainVars, lessons, batchVars, navigatorVars>>

\* update_structure.update_html_file(filepath)
UpdateStructureUpdate(filename, io) ==
    \E r \in {AssetUpdateResult(files, filename, io)} :
        /\ pc = "idle"
        /\ io # "parse_error"
        /\ files' = r.files
        /\ lastCall' = AssetCall
        /\ target' = filename
        /\ retOk' = r.ok
        /\ retMsg' = r.msg
        /\ changes' = r.changes
        /\ wrote' = r.wrote
        /\ applied' = IF ~r.raised THEN applied \cup {"assets"} ELSE applied
        /\ raised' = IF r.raised THEN raised \cup {filename} ELSE raised
        /\ UNCHANGED <<mainVars, lessons, batchVars, navigatorVars>>

Next ==
    \E filename \in DOMAIN files, io \in IoOutcomes :
        \/ FixNavigationUpdate(filename, io)
        \/ UpdateStructureUpdate(filename, io)

Spec == Init /\ [][Next]_vars

(***************************************************************************)
(* The navigator, the registry lookup and the fragment builder called on   *)
(* catalog entries and on Lesson values that are not in the catalog        *)
(***************************************************************************)
\* Lesson values equal to no catalog entry: an unknown file, and values
\* that share the file name or the numbers of an entry
StrangerLessons ==
    { Lesson(99, 1, "unknown.html", "Unknown", "Nowhere"),
      Lesson(1, 1, "filesystem_advanced_file_operations.html",
             "Advanced File Operations (draft)", "File and System Automation"),
      Lesson(14, 5, "rpa_enterprise_reporting_v2.html",
             "Reporting Automation", "RPA and Enterprise Automation") }

LessonInputs ==
    {DefineCourseStructure[i] : i \in 1..Len(DefineCourseStructure)}
    \cup StrangerLessons

FilenameInputs ==
    {DefineCourseStructure[i].filename : i \in 1..Len(DefineCourseStructure)}
    \cup {"unknown.html", "index.html", ""}

NavigatorInit ==
    /\ InitRest
    /\ pc = "navigator"
    /\ script = FixNavigation
    /\ env = ResolvedEnv
    /\ base_path = Some(CourseDir)
    /\ files = << >>
    /\ cur \in LessonInputs
    /\ target \in FilenameInputs

CallGetLessonByFilename ==
    /\ pc = "navigator"
    /\ lastCall' = "get_lesson_by_filename"
    /\ retLesson' = get_lesson_by_filename(lessons, target)
    /\ retFrag' = << >>
    /\ UNCHANGED <<mainVars, lessons, files, cur, target, retOk, retMsg, changes, wrote,
                   applied, raised, batchVars>>

CallGetPreviousLesson ==
    /\ pc = "navigator"
    /\ lastCall' = "get_previous_lesson"
    /\ retLesson' = get_previous_lesson(lessons, cur)
    /\ retFrag' = << >>
    /\ UNCHANGED <<mainVars, lessons, files, cur, target, retOk, retMsg, changes, wrote,
                   applied, raised, batchVars>>

CallGetNextLesson ==
    /\ pc = "navigator"
    /\ lastCall' = "get_next_lesson"
    /\ retLesson' = get_next_lesson(lessons, cur)
    /\ retFrag' = << >>
    /\ UNCHANGED <<mainVars, lessons, files, cur, target, retOk, retMsg, changes, wrote,
                   applied, raised, batchVars>>

CallCreateBreadcrumbHtml ==
    /\ pc = "navigator"
    /\ lastCall' = "create_breadcrumb_html"
    /\ retLesson' = None
    /\ retFrag' = create_breadcrumb_html(cur)
    /\ UNCHANGED <<mainVars, lessons, files, cur, target, retOk, retMsg, changes, wrote,
                   applied, raised, batchVars>>

CallCreateFooterNavigation ==
    /\ pc = "navigator"
    /\ lastCall' = "create_footer_navigation"
    /\ retLesson' = None
    /\ retFrag' = create_footer_navigation(lessons, cur)
    /\ UNCHANGED <<mainVars, lessons, files, cur, target, retOk, retMsg, changes, wrote,
                   applied, raised, batchVars>>

NavigatorNext ==
    \/ CallGetLessonByFilename
    \/ CallGetPreviousLesson
    \/ CallGetNextLesson
    \/ CallCreateBreadcrumbHtml
    \/ CallCreateFooterNavigation

NavigatorSpec == NavigatorInit /\ [][NavigatorNext]_vars

(***************************************************************************)
(* Properties of the navigator, the registry and the fragment builder      *)
(* (NavigatorSpec)                                                         *)
(***************************************************************************)
CatalogPositions == 1..Len(lessons)
InCatalog(l) == \E i \in CatalogPositions : lessons[i] = l

\* C4 - Navigator boundary: the previous lesson of the first catalog entry
\* and the next lesson of the last one are None; for the entry at any other
\* position i the previous (next) lesson is the entry at position i-1 (i+1),
\* whatever the module and lesson numbers are.
NavigatorBoundary ==
    \A i \in CatalogPositions :
        cur = lessons[i] =>
            /\ lastCall = "get_previous_lesson" =>
                  retLesson = IF i = 1 THEN None ELSE Some(lessons[i - 1])
            /\ lastCall = "get_next_lesson" =>
                  retLesson = IF i = Len(lessons) THEN None
                              ELSE Some(lessons[i + 1])

\* an entry inside a module whose neighbour lies in another module has had
\* its previous lesson computed
NavigatorBoundaryWitness ==
    /\ lastCall = "get_previous_lesson"
    /\ \E i \in CatalogPositions :
          /\ i > 1
          /\ cur = lessons[i]
          /\ lessons[i - 1].module_num # lessons[i].module_num
          /\ retLesson = Some(lessons[i - 1])

\* C5 - Navigator leniency: for a Lesson equal to no catalog entry both
\* navigator calls return None, and the catalog stays as constructed.
NavigatorLeniency ==
    (~InCatalog(cur) /\ lastCall \in {"get_previous_lesson", "get_next_lesson"})
        => (retLesson = None /\ lessons = DefineCourseStructure)

\* the next lesson was asked for a Lesson that shares the file name of a
\* catalog entry without being equal to it
NavigatorLeniencyWitness ==
    /\ lastCall = "get_next_lesson"
    /\ ~InCatalog(cur)
    /\ \E i \in CatalogPositions : lessons[i].filename = cur.filename
    /\ retLesson = None

\* C6 - Registry round-trip: looking up the file name of a catalog entry
\* returns that entry, looking up any other file name returns None.
RegistryRoundTrip ==
    lastCall = "get_lesson_by_filename" =>
        /\ \A i \in CatalogPositions :
              target = lessons[i].filename => retLesson = Some(lessons[i])
        /\ (\A i \in CatalogPositions : target # lessons[i].filename)
              => retLesson = None

\* the last catalog entry has been looked up by its file name
RegistryRoundTripWitness ==
    /\ lastCall = "get_lesson_by_filename"
    /\ target = lessons[Len(lessons)].filename
    /\ retLesson = Some(lessons[Len(lessons)])

\* nesting depth of the token at index i: elements open before it
Depth(frag, i) ==
    CountIn(frag, 1, i - 1, LAMBDA t : t.k = "open")
    - CountIn(frag, 1, i - 1, LAMBDA t : t.k = "close")

\* indexes of the start tags of the children of the navigation-links div
SlotStarts(frag) ==
    {i \in 1..Len(frag) : frag[i].k = "open" /\ Depth(frag, i) = 2}

\* the slot starting at index i is a link to href / an element with nothing
\* inside
IsLinkTo(frag, i, href) == frag[i].tag = "a" /\ frag[i].href = href
IsPlaceholder(frag, i) ==
    /\ frag[i].tag = "span"
    /\ i < Len(frag)
    /\ frag[i + 1] = CloseTag("span")

\* C7 - Footer slot completeness: the footer has exactly three slots, in the
\* order previous, home, next; home is always a link to index.html; the
\* previous (next) slot links to the previous (next) lesson's file when
\* there is one and is an empty placeholder otherwise.
FooterSlotCompleteness ==
    lastCall = "create_footer_navigation" =>
        LET prev == get_previous_lesson(lessons, cur)
            next == get_next_lesson(lessons, cur)
        IN  /\ retFrag[1] = OpenTag("footer", "", "", << >>)
            /\ retFrag[2] = OpenTag("div", "navigation-links", "", << >>)
            /\ Cardinality(SlotStarts(retFrag)) = 3
            /\ \E a, b, c \in SlotStarts(retFrag) :
                  /\ a < b /\ b < c
                  /\ retFrag[a].cls = "nav-prev"
                  /\ retFrag[b].cls = "nav-home"
                  /\ retFrag[c].cls = "nav-next"
                  /\ IsLinkTo(retFrag, b, "index.html")
                  /\ IF prev # None
                     THEN IsLinkTo(retFrag, a, prev[1].filename)
                     ELSE IsPlaceholder(retFrag, a)
                  /\ IF next # None
                     THEN IsLinkTo(retFrag, c, next[1].filename)
                     ELSE IsPlaceholder(retFrag, c)

\* the footer of the first catalog entry has been built: an empty previous
\* slot, a next link
FooterSlotCompletenessWitness ==
    /\ lastCall = "create_footer_navigation"
    /\ cur = lessons[1]
    /\ Cardinality(SlotStarts(retFrag)) = 3
    /\ \E a \in SlotStarts(retFrag) :
          retFrag[a].cls = "nav-prev" /\ IsPlaceholder(retFrag, a)

(***************************************************************************)
(* Properties of the two patchers on one document (Spec)                   *)
(***************************************************************************)
NavCompleted == lastCall = NavCall /\ retOk
AssetCompleted ==
    lastCall = AssetCall /\ (retOk \/ retMsg = "no changes needed")

\* C1 - Navigation patcher idempotence: a second application of the
\* navigation pass right after a first one leaves the document as the first
\* one wrote it.
NavigationPatchIdempotent ==
    [][(NavCompleted /\ NavCompleted') => files' = files]_vars

\* C2 - Asset-injection idempotence: a second application of the asset pass
\* right after a first one makes no edit, returns (False, "no changes
\* needed"), does not write, and leaves the document as it was.
AssetPatchIdempotent ==
    [][(/\ AssetCompleted
        /\ lastCall' = AssetCall
        /\ retMsg' # "Error reading file")
       => (/\ changes' = NoChanges
           /\ retOk' = FALSE
           /\ retMsg' = "no changes needed"
           /\ wrote' = FALSE
           /\ files' = files)]_vars

HasAllAssets(content) ==
    /\ InContent(content, HasEnhancedCss)
    /\ InContent(content, HasCourseEnhancements)
    /\ InContent(content, HasClipboard)
    /\ InContent(content, HasSkipToMain)
    /\ InContent(content, HasProgressIndicator)
    /\ InContent(content, HasMainTag)

\* the asset pass has run again on a document that an earlier application
\* gave all six assets, and found nothing to do
AssetPatchIdempotentWitness ==
    /\ lastCall = AssetCall
    /\ retMsg = "no changes needed"
    /\ ~wrote
    /\ applied = {"assets"}
    /\ HasAllAssets(files[target])

\* C3 - Combined idempotence: once both passes have each completed on the
\* document, no further completed application of either pass changes it.
CombinedIdempotent ==
    [][(/\ applied = {"navigation", "assets"}
        /\ (NavCompleted' \/ AssetCompleted'))
       => files' = files]_vars

\* the breadcrumb of lesson in the tree: Home, the module link, the title
ExpectedTrail(lesson) ==
    << OpenTag("nav", "breadcrumb", "", << >>),
       OpenTag("a", "", "index.html", << >>), Text("Home"), CloseTag("a"),
       Text(">"),
       OpenTag("a", "", "index.html", << lesson.module_num >>),
       Text(lesson.module_name), CloseTag("a"),
       Text(">"),
       OpenTag("span", "", "", << >>), Text(lesson.title), CloseTag("span"),
       CloseTag("nav") >>

\* the document doc has a body and neither a breadcrumb nor a footer
IsPlainDocument(doc) ==
    \E soup \in {ParseHtml(doc)} :
        /\ FindTag(soup, "body") # 0
        /\ FindBreadcrumb(soup) = 0
        /\ FindTag(soup, "footer") = 0

\* link is the start tag of a link of class cls to the file of lesson
IsNavLink(link, cls, lesson) ==
    /\ link.k = "open" /\ link.tag = "a"
    /\ link.cls = cls
    /\ link.href = lesson.filename

\* doc shows the trail of catalog entry i and a footer linking to the
\* entries i-1 and i+1, and patching it again changes nothing
IsPatchedDocument(ls, i, doc) ==
    \E soup \in {ParseHtml(doc)} :
        /\ FindBreadcrumb(soup) # 0
        /\ Element(soup, FindBreadcrumb(soup)) = ExpectedTrail(ls[i])
        /\ FindTag(soup, "footer") # 0
        /\ \E footer \in {Element(soup, FindTag(soup, "footer"))} :
              /\ \E a \in 1..Len(footer) :
                    IsNavLink(footer[a], "nav-prev", ls[i - 1])
              /\ \E c \in 1..Len(footer) :
                    IsNavLink(footer[c], "nav-next", ls[i + 1])
        /\ NavTransform(ls, ls[i], doc) = doc

InteriorPositions == 2..(Len(DefineCourseStructure) - 1)

\* C8 - End-to-end navigation result: patching the document of an interior
\* catalog entry B that has a body and no breadcrumb or footer gives it the
\* trail Home, module link #module{B.module_num}, B.title, and a footer
\* linking to B's catalog neighbours; patching it again changes nothing.
EndToEndNavigation ==
    [][\A i \in InteriorPositions :
          (/\ target' = lessons[i].filename
           /\ NavCompleted'
           /\ IsPlainDocument(files[target']))
          => IsPatchedDocument(lessons, i, files'[target'])]_vars

\* the navigation pass has completed on the document of an interior entry,
\* which now carries the entry's trail and the links to both neighbours
EndToEndNavigationWitness ==
    /\ NavCompleted
    /\ applied = {"navigation"}
    /\ \E i \in InteriorPositions :
          /\ target = lessons[i].filename
          /\ IsPatchedDocument(lessons, i, files[target])

(***************************************************************************)
(* The batch drivers: process_all_files (fix_navigation.py) and            *)
(* process_all_html_files (update_structure.py)                            *)
(***************************************************************************)
MaxFiles == 3

\* the names a target directory may hold, in the order sorted() puts them
BatchNameOrder ==
    << "_template.html", "filesystem_advanced_file_operations.html",
       "index.html", "no changes needed.html", "notes.html", "notes.txt",
       "rpa_enterprise_reporting.html" >>

BatchNames == {BatchNameOrder[i] : i \in 1..Len(BatchNameOrder)}

\* name.endswith('.html') / glob("*.html")
EndsWithHtml(name) == name # "notes.txt"
\* name.startswith("_")
StartsWithUnderscore(name) == name = "_template.html"

\* sorted(names)
SortedNames(names) == SelectSeq(BatchNameOrder, LAMBDA n : n \in names)

\* fix_navigation.py lines 419-420
NavHtmlFiles(fs) ==
    {n \in DOMAIN fs : /\ EndsWithHtml(n)
                       /\ n # "index.html"
                       /\ ~StartsWithUnderscore(n)}

\* update_structure.py lines 341-344
AssetHtmlFiles(fs) == {n \in DOMAIN fs : EndsWithHtml(n)}

\* a lesson page as first written, and the same page after the asset pass
FreshDoc ==
    HeadPart("head", "sc", "none")
    \o BodyPart("bare", InnerPart("none", "bare", "none"))
UpdatedDoc == AssetTransform(FreshDoc).content

BatchDocs == {FreshDoc, UpdatedDoc}

\* "no changes needed" in str(result), for a result that is a message: the
\* text of an OSError carries the path of the file
MentionsNoChangesNeeded(msg, detail) ==
    msg = "no changes needed" \/ detail = "no changes needed.html"

\* variant: a result that is neither a success nor "no changes needed" is
\* dropped instead of being recorded as failed
ResultCategory_failures_dropped(ok, msg, detail) ==
    IF ok THEN "updated"
    ELSE IF MentionsNoChangesNeeded(msg, detail) THEN "skipped"
    ELSE "none"

\* the if / elif / else of process_all_html_files, lines 362-373: the one
\* tally a result goes to
ResultCategory(ok, msg, detail) ==
    IF ok THEN "updated"
    ELSE IF MentionsNoChangesNeeded(msg, detail) THEN "skipped"
    ELSE "failed"

\* variant: an error of one file ends the loop
NextIndexAbortOnError(i, n, didRaise) ==
    IF didRaise THEN n + 1 ELSE i + 1

\* the for loops (fix_navigation.py 428-434, update_structure.py 358-373):
\* after file i of n comes file i+1, whether or not file i raised
NextIndex(i, n, didRaise) == i + 1

BatchInit ==
    /\ InitRest
    /\ pc = "start"
    /\ script \in {FixNavigation, UpdateStructure}
    /\ env = ResolvedEnv
    /\ base_path = Some(CourseDir)
    /\ cur = DefineCourseStructure[1]
    /\ target = ""
    /\ \E names \in SUBSET BatchNames :
          /\ Cardinality(names) <= MaxFiles
          /\ files \in [names -> BatchDocs]

\* process_all_files, lines 416-426
NavBatchStart ==
    /\ script = FixNavigation
    /\ pc = "start"
    /\ pc' = "nav_loop"
    /\ queue' = SortedNames(NavHtmlFiles(files))
    /\ idx' = 1
    /\ success_count' = 0
    /\ skipped_count' = 0
    /\ UNCHANGED <<mainVars, lessons, files, navigatorVars, lastCall, target, retOk,
                   retMsg, changes, wrote, applied, updated_count,
                   failed_files, raised, attempted, report>>

\* one iteration of the loop of process_all_files, lines 428-434
NavBatchStep(io) ==
    /\ pc = "nav_loop"
    /\ idx <= Len(queue)
    /\ \E r \in {NavUpdateResult(lessons, files, queue[idx], io)} :
          /\ files' = r.files
          /\ lastCall' = NavCall
          /\ target' = queue[idx]
          /\ retOk' = r.ok
          /\ retMsg' = ""
          /\ changes' = NoChanges
          /\ wrote' = r.wrote
          /\ success_count' = IF r.ok THEN success_count + 1
                              ELSE success_count
          /\ skipped_count' = IF r.ok THEN skipped_count
                              ELSE skipped_count + 1
          /\ raised' = IF r.raised THEN raised \cup {queue[idx]} ELSE raised
          /\ attempted' = Append(attempted, queue[idx])
          /\ idx' = NextIndex(idx, Len(queue), r.raised)
    /\ UNCHANGED <<mainVars, lessons, navigatorVars, applied, pc, queue, updated_count,
                   failed_files, report>>

\* the tally of process_all_files and create_summary_report, lines 436-453:
\* skipped is the console figure "Skipped/Failed", failed the figure of the
\* same name in the report file
NavBatchSummary ==
    /\ pc = "nav_loop"
    /\ idx > Len(queue)
    /\ pc' = "done"
    /\ report' = [shown |-> TRUE, updated |-> success_count,
                  skipped |-> skipped_count,
                  failed |-> Len(queue) - success_count]
    /\ UNCHANGED <<mainVars, lessons, files, navigatorVars, lastCall, target, retOk,
                   retMsg, changes, wrote, applied, queue, idx,
                   success_count, skipped_count, updated_count, failed_files,
                   raised, attempted>>

\* process_all_html_files, lines 338-355
AssetBatchStart ==
    /\ script = UpdateStructure
    /\ pc = "start"
    /\ pc' = "asset_loop"
    /\ queue' = SortedNames(AssetHtmlFiles(files))
    /\ idx' = 1
    /\ updated_count' = 0
    /\ skipped_count' = 0
    /\ failed_files' = << >>
    /\ UNCHANGED <<mainVars, lessons, files, navigatorVars, lastCall, target, retOk,
                   retMsg, changes, wrote, applied, success_count, raised,
                   attempted, report>>

\* one iteration of the loop of process_all_html_files, lines 358-373
AssetBatchStep(io) ==
    /\ pc = "asset_loop"
    /\ idx <= Len(queue)
    /\ io # "parse_error"
    /\ \E r \in {AssetUpdateResult(files, queue[idx], io)} :
          /\ files' = r.files
          /\ lastCall' = AssetCall
          /\ target' = queue[idx]
          /\ retOk' = r.ok
          /\ retMsg' = r.msg
          /\ changes' = r.changes
          /\ wrote' = r.wrote
          /\ updated_count' =
                IF ResultCategory(r.ok, r.msg, r.detail) = "updated"
                THEN updated_count + 1 ELSE updated_count
          /\ skipped_count' =
                IF ResultCategory(r.ok, r.msg, r.detail) = "skipped"
                THEN skipped_count + 1 ELSE skipped_count
          /\ failed_files' =
                IF ResultCategory(r.ok, r.msg, r.detail) = "failed"
                THEN Append(failed_files, queue[idx]) ELSE failed_files
          /\ raised' = IF r.raised THEN raised \cup {queue[idx]} ELSE raised
          /\ attempted' = Append(attempted, queue[idx])
          /\ idx' = NextIndex(idx, Len(queue), r.raised)
    /\ UNCHANGED <<mainVars, lessons, navigatorVars, applied, pc, queue, success_count,
                   report>>

\* the summary of process_all_html_files, lines 375-382
AssetBatchSummary ==
    /\ pc = "asset_loop"
    /\ idx > Len(queue)
    /\ pc' = "done"
    /\ report' = [shown |-> TRUE, updated |-> updated_count,
                  skipped |-> skipped_count, failed |-> Len(failed_files)]
    /\ UNCHANGED <<mainVars, lessons, files, navigatorVars, lastCall, target, retOk,
                   retMsg, changes, wrote, applied, queue, idx,
                   success_count, skipped_count, updated_count, failed_files,
                   raised, attempted>>

BatchNext ==
    \/ NavBatchStart
    \/ \E io \in IoOutcomes : NavBatchStep(io)
    \/ NavBatchSummary
    \/ AssetBatchStart
    \/ \E io \in IoOutcomes : AssetBatchStep(io)
    \/ AssetBatchSummary

BatchSpec == BatchInit /\ [][BatchNext]_vars

(***************************************************************************)
(* Properties of the batch drivers                                         *)
(***************************************************************************)
InLoop == pc \in {"nav_loop", "asset_loop"}

\* C9 - Partial-failure containment: in both batch loops a file whose
\* processing raises does not end the batch: the loop moves on to the next
\* file, the files attempted are always the enumerated files up to the loop
\* position, and the summary is reached with every enumerated file
\* attempted.
PartialFailureContainment ==
    [][/\ (InLoop /\ raised' # raised)
           => (/\ pc' = pc
               /\ queue' = queue
               /\ idx' = idx + 1
               /\ attempted' = Append(attempted, queue[idx]))
       /\ InLoop' => attempted' = SubSeq(queue', 1, idx' - 1)
       /\ pc' = "done" => (attempted' = queue' /\ report'.shown)]_vars

\* a batch has reached its summary although a file that was not the last
\* one raised; the files after it were attempted
PartialFailureContainmentWitness ==
    /\ pc = "done"
    /\ report.shown
    /\ attempted = queue
    /\ \E k \in 1..(Len(queue) - 1) :
          queue[k] \in raised /\ queue[k + 1] \notin raised

\* C10 - Failed-count accuracy: at the end of a batch the failed count of
\* the final report equals the number of files whose processing raised.
FailedCountAccurate ==
    pc = "done" => report.failed = Cardinality(raised)

\* C11 - Unmapped documents are skipped without effect: in the navigation
\* batch, a file whose name has no catalog entry is handed to update_html_file
\* and comes back False with the directory as it was, nothing written and no
\* error raised, whatever reading or writing the file would have done; the
\* loop counts it as skipped and moves on to the next file.
UnmappedSkippedWithoutEffect ==
    [][(/\ pc = "nav_loop"
        /\ idx <= Len(queue)
        /\ get_lesson_by_filename(lessons, queue[idx]) = None)
       => (/\ files' = files
           /\ target' = queue[idx]
           /\ retOk' = FALSE
           /\ wrote' = FALSE
           /\ raised' = raised
           /\ skipped_count' = skipped_count + 1
           /\ success_count' = success_count
           /\ pc' = pc
           /\ idx' = idx + 1)]_vars

\* the navigation loop has just skipped a file without catalog entry and
\* another file is waiting
UnmappedSkippedWithoutEffectWitness ==
    /\ pc = "nav_loop"
    /\ lastCall = NavCall
    /\ idx >= 2
    /\ idx <= Len(queue)
    /\ target = queue[idx - 1]
    /\ get_lesson_by_filename(lessons, target) = None
    /\ retOk = FALSE
    /\ wrote = FALSE
    /\ raised = {}
    /\ skipped_count >= 1

\* C12 - Target enumeration excludes the landing page and underscore files:
\* in the navigation batch and in the asset batch alike, the files handed to
\* the patcher are exactly the .html files of the directory other than
\* index.html and the files whose name starts with an underscore, and no
\* step of either batch changes index.html or an underscore file.
TargetEnumeration ==
    [][/\ pc' \in {"nav_loop", "asset_loop", "done"}
           => {queue'[i] : i \in 1..Len(queue')} = NavHtmlFiles(files')
       /\ \A n \in DOMAIN files :
              (n = "index.html" \/ StartsWithUnderscore(n))
                 => files'[n] = files[n]]_vars

(***************************************************************************)
(* The two programs from their entry points: main() of fix_navigation.py   *)
(* and main() of update_structure.py                                       *)
(***************************************************************************)
\* the course directory is or is not at a location the scripts probe; a
\* sibling project (python_intro / python_gamedev) is or is not found
Envs == [reachable : BOOLEAN, source : BOOLEAN]

\* what the operator may type when asked for the path
EnteredPaths == {"python_automation", "'python_automation'", "no_such_dir"}

\* base_path.strip('"').strip("'")
StripQuotes(p) == IF p = "'python_automation'" THEN "python_automation" ELSE p

\* Path(p).exists() / os.path.exists(p)
PathExists(p) == p = CourseDir

\* what the operator may type at a y/n question
Answers == {"y", " Y ", "n", ""}

\* answer.strip().lower()
StripLower(a) == IF a = " Y " THEN "y" ELSE a

\* detect_path: a probed location that exists and holds index.html
detect_path(e, fs) ==
    IF e.reachable /\ "index.html" \in DOMAIN fs THEN Some(CourseDir)
    ELSE None

\* verify_structure: mapped_files and unmapped
MappedFiles(ls) == {ls[i].filename : i \in DOMAIN ls}
Unmapped(ls, fs) == NavHtmlFiles(fs) \ MappedFiles(ls)

\* CourseNavigationFixer(base_path): the constructor runs verify_structure,
\* which either asks the operator or lets process_all_files begin
verify_structure(ls, fs) ==
    IF Unmapped(ls, fs) # {} THEN "confirm" ELSE "start"

\* main() of fix_navigation.py after the operator typed a path
NavPathOutcome(exists, hasIndex, constructed) ==
    IF ~exists THEN "exit"
    ELSE IF ~hasIndex THEN "ask_index"
    ELSE constructed

\* variant: the answer to "Continue anyway?" is not looked at
ConfirmOutcome_ignored(answer) == "start"

\* verify_structure: if response != 'y': sys.exit(1)
ConfirmOutcome(answer) == IF answer # "y" THEN "exit" ELSE "start"

\* variant: the typed path is used without asking whether it exists
AssetPathOutcome_unchecked(exists) == "copy_js"

\* get_project_paths after the operator typed a path
AssetPathOutcome(exists) == IF exists THEN "copy_js" ELSE "exit"

JsFiles == {"js/course-enhancements.js", "js/clipboard.js"}

\* variant: the interrupt is swallowed and the loop goes on
InterruptPc_swallowed(p) == p

\* a KeyboardInterrupt is no Exception: it passes the except clauses of
\* update_html_file and of main() and ends the program
InterruptPc(p) == "interrupted"

MainInit ==
    /\ InitRest
    /\ pc = "main"
    /\ script \in {FixNavigation, UpdateStructure}
    /\ env \in Envs
    /\ base_path = None
    /\ cur = DefineCourseStructure[1]
    /\ target = ""
    /\ \E names \in SUBSET BatchNames :
          /\ Cardinality(names) <= MaxFiles
          /\ files = [n \in names |-> FreshDoc]

loopVars == <<lessons, files, navigatorVars, lastCall, target, retOk, retMsg,
              changes, wrote, applied, queue, idx, success_count,
              skipped_count, updated_count, failed_files, raised, attempted,
              report>>

\* main() of fix_navigation.py up to its first question, or up to the loop
NavMain ==
    /\ script = FixNavigation
    /\ pc = "main"
    /\ \E found \in {detect_path(env, files)} :
          /\ base_path' = found
          /\ pc' = IF found = None THEN "ask_path"
                   ELSE verify_structure(lessons, files)
    /\ prompted' = (pc' = "confirm")
    /\ UNCHANGED <<loopVars, script, env, response, created, interrupted>>

\* the operator answers "Path:"
NavEnterPath(entered) ==
    /\ script = FixNavigation
    /\ pc = "ask_path"
    /\ base_path' = Some(StripQuotes(entered))
    /\ pc' = NavPathOutcome(PathExists(StripQuotes(entered)),
                            "index.html" \in DOMAIN files,
                            verify_structure(lessons, files))
    /\ prompted' = (pc' = "confirm")
    /\ UNCHANGED <<loopVars, script, env, response, created, interrupted>>

\* the operator answers "Continue anyway?" of main(), asked when the
\* directory has no index.html
NavAnswerIndex(answer) ==
    /\ script = FixNavigation
    /\ pc = "ask_index"
    /\ pc' = IF StripLower(answer) # "y" THEN "exit"
             ELSE verify_structure(lessons, files)
    /\ prompted' = (pc' = "confirm")
    /\ UNCHANGED <<loopVars, script, env, base_path, response, created,
                   interrupted>>

\* the operator answers "Continue anyway?" of verify_structure
NavConfirm(answer) ==
    /\ script = FixNavigation
    /\ pc = "confirm"
    /\ response' = Some(StripLower(answer))
    /\ pc' = ConfirmOutcome(StripLower(answer))
    /\ UNCHANGED <<loopVars, script, env, base_path, prompted, created,
                   interrupted>>

\* main() of update_structure.py up to the question of get_project_paths,
\* or up to copy_js_files
AssetMain ==
    /\ script = UpdateStructure
    /\ pc = "main"
    /\ base_path' = IF env.reachable THEN Some(CourseDir) ELSE None
    /\ pc' = IF env.reachable THEN "copy_js" ELSE "ask_path"
    /\ UNCHANGED <<loopVars, script, env, prompted, response, created,
                   interrupted>>

\* the operator types the path of python_automation
AssetEnterPath(entered) ==
    /\ script = UpdateStructure
    /\ pc = "ask_path"
    /\ base_path' = Some(entered)
    /\ pc' = AssetPathOutcome(PathExists(entered))
    /\ UNCHANGED <<loopVars, script, env, prompted, response, created,
                   interrupted>>

\* copy_js_files: the js directory is made; with a source project the files
\* that exist there and can be copied arrive
CopyJsFiles(copied) ==
    /\ script = UpdateStructure
    /\ pc = "copy_js"
    /\ env.source \/ copied = {}
    /\ created' = created \cup {"js"} \cup copied
    /\ pc' = "copy_css"
    /\ UNCHANGED <<loopVars, script, env, base_path, prompted, response,
                   interrupted>>

\* copy_enhanced_css: the styles directory is made; with a source project
\* enhanced.css is copied or written afresh, unless the copy fails
CopyEnhancedCss(copyOk) ==
    /\ script = UpdateStructure
    /\ pc = "copy_css"
    /\ env.source \/ ~copyOk
    /\ created' = created \cup {"styles"}
                     \cup (IF copyOk THEN {"styles/enhanced.css"} ELSE {})
    /\ pc' = "start"
    /\ UNCHANGED <<loopVars, script, env, base_path, prompted, response,
                   interrupted>>

InterruptMoments == {"before_write", "during_write", "after_write"}

\* Ctrl-C while update_html_file works on queue[idx]: before the file is
\* opened for writing, after it was truncated, or after it was written
Interrupt(moment) ==
    /\ pc \in {"nav_loop", "asset_loop"}
    /\ idx <= Len(queue)
    /\ \E r \in {IF pc = "nav_loop"
                  THEN NavUpdateResult(lessons, files, queue[idx], "ok").files
                  ELSE AssetUpdateResult(files, queue[idx], "ok").files} :
          files' = IF moment = "before_write" \/ r = files THEN files
                   ELSE IF moment = "during_write"
                   THEN [files EXCEPT ![queue[idx]] = EmptyDoc]
                   ELSE r
    /\ interrupted' = TRUE
    /\ pc' = InterruptPc(pc)
    /\ UNCHANGED <<lessons, navigatorVars, lastCall, target, retOk, retMsg,
                   changes, wrote, applied, queue, idx, success_count,
                   skipped_count, updated_count, failed_files, raised,
                   attempted, report, script, env, base_path, prompted,
                   response, created>>

MainNext ==
    \/ NavMain
    \/ \E entered \in EnteredPaths : NavEnterPath(entered)
    \/ \E answer \in Answers : NavAnswerIndex(answer)
    \/ \E answer \in Answers : NavConfirm(answer)
    \/ AssetMain
    \/ \E entered \in EnteredPaths : AssetEnterPath(entered)
    \/ \E copied \in SUBSET JsFiles : CopyJsFiles(copied)
    \/ \E copyOk \in BOOLEAN : CopyEnhancedCss(copyOk)
    \/ BatchNext
    \/ \E moment \in InterruptMoments : Interrupt(moment)

MainSpec == MainInit /\ [][MainNext]_vars

\* C13 - No valid target directory: when the course directory is not found
\* at a known location and the path the operator types does not exist,
\* either script stops there: no document has been read or written, no
\* asset file or directory has been created, no report has been written.
UnresolvedDirectoryTouchesNothing ==
    [][/\ pc \in {"main", "ask_path"}
           => (files' = files /\ created' = {} /\ lastCall' = "none")
       /\ (base_path' # None /\ ~PathExists(base_path'[1]))
           => (/\ pc' = "exit"
               /\ files' = files
               /\ created' = {}
               /\ lastCall' = "none"
               /\ attempted' = << >>
               /\ report'.shown = FALSE)]_vars

\* a run has ended on a typed path that does not exist
UnresolvedDirectoryTouchesNothingWitness ==
    /\ pc = "exit"
    /\ env.reachable = FALSE
    /\ base_path # None
    /\ ~PathExists(base_path[1])
    /\ created = {}
    /\ lastCall = "none"

\* C14 - Interrupt safety: when a keyboard interrupt arrives while a file
\* of either batch is being processed, the run ends there: the interrupt can
\* touch no file but the one being processed, and from then on no file is
\* processed, no file written earlier changes, and no summary is produced.
InterruptSafety ==
    [][/\ (interrupted' /\ ~interrupted)
           => (/\ InLoop
               /\ idx <= Len(queue)
               /\ pc' = "interrupted"
               /\ \A n \in DOMAIN files :
                      n # queue[idx] => files'[n] = files[n]
               /\ attempted' = attempted
               /\ report' = report)
       /\ interrupted
           => (files' = files /\ attempted' = attempted /\ report' = report)
      ]_vars

\* a batch was interrupted after it had written a file and while files were
\* still waiting behind the one being processed
InterruptSafetyWitness ==
    /\ interrupted
    /\ pc = "interrupted"
    /\ Len(attempted) >= 1
    /\ retOk
    /\ wrote
    /\ idx < Len(queue)
    /\ report.shown = FALSE

(***************************************************************************)
(* Properties of the edits of one document                                 *)
(***************************************************************************)
\* the tokens of content that satisfy P, in order
Occurrences(content, P(_)) == SelectSeq(content, P)

\* a reference that was absent from before is in after, and one that was
\* in before is in after as it was
AddedOrKept(before, after, P(_)) ==
    IF InContent(before, P)
    THEN Occurrences(after, P) = Occurrences(before, P)
    ELSE InContent(after, P)

\* some token satisfying P has a token satisfying Q somewhere after it
SomeBefore(content, P(_), Q(_)) ==
    \E i \in 1..Len(content) :
       /\ P(content[i])
       /\ \E j \in (i + 1)..Len(content) : Q(content[j])

\* some token satisfying P is directly followed by one satisfying Q
SomeDirectlyBefore(content, P(_), Q(_)) ==
    \E i \in 1..(Len(content) - 1) : P(content[i]) /\ Q(content[i + 1])

IsMainCssLink(t) == t.tag = "link" /\ t.href = "styles/main.css"
IsBodyOpen(t) == t.k = "open" /\ t.tag = "body"
IsMainClose(t) == t = MainClose

\* the six references of the asset pass, each added at its anchor when it
\* was absent and kept when it was present
AssetsAddedAtAnchors(before, after) ==
    /\ AddedOrKept(before, after, HasEnhancedCss)
    /\ AddedOrKept(before, after, HasCourseEnhancements)
    /\ AddedOrKept(before, after, HasClipboard)
    /\ AddedOrKept(before, after, HasSkipToMain)
    /\ AddedOrKept(before, after, HasProgressIndicator)
    /\ AddedOrKept(before, after, HasMainTag)
    /\ ~InContent(before, HasEnhancedCss)
          => SomeDirectlyBefore(after, IsMainCssLink, HasEnhancedCss)
    /\ ~InContent(before, HasCourseEnhancements)
          => SomeBefore(after, HasCourseEnhancements, IsHeadClose)
    /\ ~InContent(before, HasClipboard)
          => SomeBefore(after, HasClipboard, IsHeadClose)
    /\ ~InContent(before, HasSkipToMain)
          => SomeBefore(after, IsBodyOpen, HasSkipToMain)
    /\ ~InContent(before, HasProgressIndicator)
          => SomeBefore(after, IsBodyOpen, HasProgressIndicator)
    /\ ~InContent(before, HasMainTag)
          => (/\ SomeDirectlyBefore(after, HasMainTag, MatchesH1)
              /\ SomeDirectlyBefore(after, IsMainClose, IsBodyClose))

\* C15 - Asset insertion when absent: an asset pass that runs to its end
\* leaves each of the six references in the document: one that was absent
\* is inserted at its anchor (after the main.css link, before </head>,
\* before </head>, after the body start tag, after the body start tag, from
\* the first h1 to just before </body>), one that was present stays as is.
AssetInsertionWhenAbsent ==
    [][(lastCall' = AssetCall /\ AssetCompleted')
       => AssetsAddedAtAnchors(files[target'], files'[target'])]_vars

IsBreadcrumbNav(t) == t.k = "open" /\ t.tag = "nav" /\ t.cls = "breadcrumb"
IsFooterOpen(t) == t.k = "open" /\ t.tag = "footer"
IsFooterClose(t) == t.k = "close" /\ t.tag = "footer"

CountOf(tree, P(_)) == CountIn(tree, 1, Len(tree), P)

\* the token in front of the first token that satisfies P, if there is one
Predecessor(tree, P(_)) ==
    IF FirstIdx(tree, P) <= 1 THEN None
    ELSE Some(tree[FirstIdx(tree, P) - 1])

\* the breadcrumb and the footer of after, given the tree before the pass
RegionsPlaced(before, after) ==
    /\ CountOf(before, IsBreadcrumbNav) >= 1
          => (/\ CountOf(after, IsBreadcrumbNav)
                    = CountOf(before, IsBreadcrumbNav)
              /\ Predecessor(after, IsBreadcrumbNav)
                    = Predecessor(before, IsBreadcrumbNav))
    /\ CountOf(before, IsFooterOpen) >= 1
          => (/\ CountOf(after, IsFooterOpen) = CountOf(before, IsFooterOpen)
              /\ Predecessor(after, IsFooterOpen)
                    = Predecessor(before, IsFooterOpen))
    /\ (CountOf(before, IsBreadcrumbNav) = 0 /\ FindTag(before, "body") # 0)
          => (/\ CountOf(after, IsBreadcrumbNav) = 1
              /\ IsBreadcrumbNav(after[FindTag(after, "body") + 1]))
    /\ (CountOf(before, IsFooterOpen) = 0 /\ FindTag(before, "body") # 0)
          => (/\ CountOf(after, IsFooterOpen) = 1
              /\ IsFooterClose(
                    after[MatchClose(after, FindTag(after, "body")) - 1]))
    /\ (CountOf(before, IsBreadcrumbNav) <= 1
           /\ CountOf(before, IsFooterOpen) <= 1)
          => (/\ CountOf(after, IsBreadcrumbNav) <= 1
              /\ CountOf(after, IsFooterOpen) <= 1)

\* C16 - Breadcrumb and footer placement without duplication: a navigation
\* pass replaces the first breadcrumb nav (the first footer) where it stands
\* and leaves the number of such regions as it was; with none and a body it
\* inserts exactly one, as first child of body (as last child of body); a
\* document with at most one of each has at most one of each afterwards.
PlacementWithoutDuplication ==
    [][(lastCall' = NavCall /\ NavCompleted')
       => RegionsPlaced(ParseHtml(files[target']),
                        ParseHtml(files'[target']))]_vars

IsInjectedStyle(t) == t = StyleTag(NavigationCss)
IsMarkerStyle(t) == t.k = "leaf" /\ t.tag = "style" /\ HasNavMarker(t.txt)
IsHeadOpen(t) == t.k = "open" /\ t.tag = "head"

\* the number of injected style blocks of after is that of before, plus one
\* exactly when before has a head and no style block with a marker; the new
\* block is the last child of head
StyleInjected(before, after) ==
    LET due == /\ ~InContent(before, IsMarkerStyle)
               /\ InContent(before, IsHeadOpen)
    IN  /\ CountOf(after, IsInjectedStyle)
              = CountOf(before, IsInjectedStyle) + (IF due THEN 1 ELSE 0)
        /\ due => SomeDirectlyBefore(after, IsInjectedStyle, IsHeadClose)

\* C17 - Style injection happens at most once: a navigation pass appends
\* its style block to head exactly when the document has a head and no
\* style block that contains 'breadcrumb' or 'navigation-links'; however
\* many passes have run, no document holds more than one injected block.
StyleInjectedAtMostOnce ==
    [][/\ (lastCall' = NavCall /\ NavCompleted')
           => StyleInjected(files[target'], files'[target'])
       /\ \A n \in DOMAIN files' :
              CountOf(files'[n], IsInjectedStyle) <= 1]_vars

\* a navigation pass has completed on a document that holds exactly one
\* injected style block, as last child of head
StyleInjectedAtMostOnceWitness ==
    /\ NavCompleted
    /\ "navigation" \in applied
    /\ CountOf(files[target], IsInjectedStyle) = 1
    /\ SomeDirectlyBefore(files[target], IsInjectedStyle, IsHeadClose)

\* C18 - Registry validation reports every mismatch: once the fixer has been
\* constructed, the operator has been asked "Continue anyway?" exactly when
\* the file names of the catalog and the eligible HTML files of the
\* directory are not the same set, be it a file without catalog entry or a
\* catalog entry without file.
RegistryMismatchReported ==
    (script = FixNavigation /\ pc \in {"confirm", "start", "nav_loop", "done"})
       => (prompted <=> MappedFiles(lessons) # NavHtmlFiles(files))

\* C19 - Confirmation precedes every write: after verify_structure has
\* asked its question nothing is written until the operator answers; an
\* answer other than y ends the run with every document as it was and no
\* report; the answer y starts the batch, which, when it reaches its end,
\* has handed every enumerated file to the patcher.
ConfirmationPrecedesWrites ==
    [][/\ pc = "confirm"
           => (/\ files' = files
               /\ report' = report
               /\ attempted' = << >>
               /\ response' # None
               /\ pc' = IF response' = Some("y") THEN "start" ELSE "exit")
       /\ (prompted' /\ response' = None)
           => (pc' = "confirm" /\ files' = files /\ lastCall' = "none")
       /\ (prompted' /\ response' # None /\ response' # Some("y"))
           => (/\ pc' = "exit"
               /\ files' = files
               /\ lastCall' = "none"
               /\ attempted' = << >>
               /\ report'.shown = FALSE)
       /\ (prompted' /\ pc' = "done")
           => (/\ response' = Some("y")
               /\ attempted' = queue'
               /\ {queue'[i] : i \in 1..Len(queue')} = NavHtmlFiles(files')
               /\ report'.shown)]_vars

\* the operator was asked, answered y, and the batch ran to its report
ConfirmationPrecedesWritesWitness ==
    /\ script = FixNavigation
    /\ prompted
    /\ response = Some("y")
    /\ pc = "done"
    /\ Len(attempted) >= 2
    /\ report.shown

\* the three tallies of the asset loop, and the two of the navigation loop
AssetTally == updated_count + skipped_count + Len(failed_files)
NavTally == success_count + skipped_count

\* C20 - Tally conservation: in the asset loop every processed file adds
\* one to exactly one of updated, skipped and failed, so their sum is the
\* number of files processed so far and, at the summary, the number of
\* enumerated files; in the navigation loop success and skipped add up the
\* same way, and the Skipped/Failed figure of the report file equals the
\* skipped count of the loop.
TallyConservation ==
    [][/\ (pc = "asset_loop" /\ idx' = idx + 1)
           => (/\ AssetTally' = AssetTally + 1
               /\ updated_count' >= updated_count
               /\ skipped_count' >= skipped_count
               /\ Len(failed_files') >= Len(failed_files))
       /\ pc' = "asset_loop"
           => (AssetTally' = Len(attempted') /\ Len(attempted') = idx' - 1)
       /\ (pc' = "done" /\ script' = UpdateStructure)
           => (/\ AssetTally' = Len(queue')
               /\ report'.updated + report'.skipped + report'.failed
                     = Len(queue'))
       /\ (pc = "nav_loop" /\ idx' = idx + 1)
           => (/\ NavTally' = NavTally + 1
               /\ success_count' >= success_count
               /\ skipped_count' >= skipped_count)
       /\ pc' = "nav_loop"
           => (NavTally' = Len(attempted') /\ Len(attempted') = idx' - 1)
       /\ (pc' = "done" /\ script' = FixNavigation)
           => (/\ NavTally' = Len(queue')
               /\ report'.failed = skipped_count'
               /\ report'.skipped = skipped_count')]_vars

\* an asset batch has reached its summary with a file in each of the three
\* tallies
TallyConservationWitness ==
    /\ script = UpdateStructure
    /\ pc = "done"
    /\ updated_count >= 1
    /\ skipped_count >= 1
    /\ Len(failed_files) >= 1
    /\ AssetTally = Len(queue)

\* the main wrapper of after, given the document before the pass and the
\* changes the pass recorded: an opening tag that was inserted stands right
\* before an h1, its end tag right before </body>, the change is recorded,
\* and the document has as many end tags of main as start tags
MainWrapperClosed(before, after, recorded) ==
    /\ (~InContent(before, HasMainTag) /\ InContent(after, HasMainTag))
          => (/\ SomeDirectlyBefore(after, HasMainTag, MatchesH1)
              /\ SomeDirectlyBefore(after, IsMainClose, IsBodyClose)
              /\ \E i \in 1..Len(recorded) :
                     recorded[i] = "added main wrapper")
    /\ CountOf(after, HasMainTag) = CountOf(after, IsMainClose)

\* C21 - Main wrapper is balanced: an asset pass that inserts the opening
\* main tag before the first heading also inserts the end tag before
\* </body> in the same application and records "added main wrapper"; no
\* application leaves a document with an opening main tag and no end tag.
MainWrapperBalanced ==
    [][(lastCall' = AssetCall /\ AssetCompleted')
       => MainWrapperClosed(files[target'], files'[target'], changes')]_vars

====
